---- MODULE Spec2Model ----
(***************************************************************************)
(* A state-machine model of kangaroo/predict.py (DeepBind): the strand     *)
(* resolver maskout_revcomp, the window slicer and the attribution-map     *)
(* assembly of gen_convnet_predictionmaps, the finite-difference pass of   *)
(* gen_convnet_predictions, the chunk and batch loops that build the       *)
(* prediction maps, predict_worker.__call__ and the pool orchestrator      *)
(* predict.                                                                *)
(*                                                                         *)
(* Each component has its own specification over its own variable; the     *)
(* other variables rest at Off.  Scores are modelled as integers (finite,  *)
(* totally ordered numbers); the only non-finite values are the NaN and    *)
(* infinities that the code's own division can produce.                    *)
(***************************************************************************)
EXTENDS Integers, Sequences, FiniteSets, TLC

VARIABLES mk, sl, gm, wc, pr, fd, pm

vars == <<mk, sl, gm, wc, pr, fd, pm>>

\* The resting value of a component that a specification does not exercise.
Off == [pc |-> "off"]

(***************************************************************************)
(* Bounds of the model.                                                    *)
(***************************************************************************)
MaxPairs == 2
MaxScore == 1

\* Scores a model evaluation can put into Z.
Scores == (0 - MaxScore)..MaxScore

\* All sequences over S of length 0..n.
SeqsUpTo(S, n) == UNION {[1..k -> S] : k \in 0..n}

Max(a, b) == IF a >= b THEN a ELSE b
Min(a, b) == IF a <= b THEN a ELSE b

(***************************************************************************)
(* maskout_revcomp (predict.py 145-164).                                   *)
(***************************************************************************)

\* globals.flags as far as maskout_revcomp reads it: "absent" when the key
\* "reverse_complement" is not in the flags, "force" when its value is
\* "force", "on" for any other value.
RevcompFlags == {"absent", "on", "force"}

\* Z[mask] over the positions lo..hi: the two halves of the range are
\* selected and joined.
RECURSIVE MaskSelectRange(_, _, _, _)
MaskSelectRange(Z, mask, lo, hi) ==
    IF lo > hi THEN <<>>
    ELSE IF lo = hi THEN (IF mask[lo] THEN <<Z[lo]>> ELSE <<>>)
    ELSE LET mid == (lo + hi) \div 2
         IN  MaskSelectRange(Z, mask, lo, mid) \o MaskSelectRange(Z, mask, mid + 1, hi)

\* Z[mask]: numpy boolean-mask indexing, the entries of Z whose mask is True,
\* in order.
MaskSelect(Z, mask) == MaskSelectRange(Z, mask, 1, Len(Z))

\* Line 160 with the comparison weakened: a tie selects neither strand.
FwdSelectedStrict(f, r) == f > r

\* Line 160: Zmask[:,0] = Zcols[:,0] >= Zcols[:,1]
FwdSelected(f, r) == f >= r

\* Line 161: Zmask[:,1] = Zcols[:,0] < Zcols[:,1]
RevSelected(f, r) == f < r

\* Lines 148-162: the mask over the flattened pairs.  Entry 2p-1 is the
\* forward strand of pair p and entry 2p its reverse strand.
ZmaskOf(Z, flag) ==
    [n \in 1..Len(Z) |->
        LET p == (n + 1) \div 2
            f == Z[2 * p - 1]
            r == Z[2 * p]
        IN  IF flag = "force" THEN (n % 2 = 0)
            ELSE IF n % 2 = 1 THEN FwdSelected(f, r) ELSE RevSelected(f, r)]

\* maskout_revcomp(Z): the result (Z, Zmask), or the ValueError of
\* Z.reshape((-1,2)) on an odd number of scores.  hasMask is FALSE for the
\* Zmask None of line 146.
maskout_revcomp(Z, flag) ==
    IF flag = "absent"
    THEN [raised |-> FALSE, Z |-> Z, hasMask |-> FALSE, Zmask |-> <<>>]
    ELSE IF Len(Z) % 2 # 0
    THEN [raised |-> TRUE, Z |-> <<>>, hasMask |-> FALSE, Zmask |-> <<>>]
    ELSE LET m == ZmaskOf(Z, flag)
         IN  [raised |-> FALSE, Z |-> MaskSelect(Z, m), hasMask |-> TRUE, Zmask |-> m]

MkInit ==
    /\ mk \in {[pc |-> "call", flag |-> f, Z |-> z, out |-> maskout_revcomp(<<>>, "absent")] :
                 f \in RevcompFlags, z \in SeqsUpTo(Scores, 2 * MaxPairs)}
    /\ sl = Off /\ gm = Off /\ wc = Off /\ pr = Off /\ fd = Off /\ pm = Off

\* One call of maskout_revcomp on the scores of a batch.
MaskoutCall ==
    /\ mk.pc = "call"
    /\ mk' = [mk EXCEPT !.pc = "done", !.out = maskout_revcomp(mk.Z, mk.flag)]
    /\ UNCHANGED <<sl, gm, wc, pr, fd, pm>>

MkNext == MaskoutCall

SpecMask == MkInit /\ [][MkNext]_vars

\* C9: maskout_revcomp returns the scores unchanged and no mask when
\* double-strand scoring is off; when it is on, the mask has exactly one True
\* in every (forward, reverse) pair, the resolved array has one value per
\* pair, each the input score at the True position; forced mode gives
\* [False, True] for every pair; otherwise the True is on the strictly higher
\* strand, and on forward when the two scores are equal.
MaskoutResolvesPairs ==
    (mk.pc = "done" /\ ~mk.out.raised) =>
        LET Z == mk.Z
            out == mk.out
            np == Len(Z) \div 2
        IN  /\ mk.flag = "absent" => (out.Z = Z /\ ~out.hasMask)
            /\ mk.flag # "absent" =>
                  /\ out.hasMask
                  /\ Len(out.Zmask) = Len(Z)
                  /\ Len(out.Z) = np
                  /\ \A p \in 1..np :
                        /\ out.Zmask[2 * p - 1] # out.Zmask[2 * p]
                        /\ out.Z[p] = (IF out.Zmask[2 * p - 1] THEN Z[2 * p - 1] ELSE Z[2 * p])
                        /\ mk.flag = "force" => (~out.Zmask[2 * p - 1] /\ out.Zmask[2 * p])
                        /\ mk.flag = "on" => (out.Zmask[2 * p] <=> Z[2 * p] > Z[2 * p - 1])

\* A resolved batch with a tie (forward kept) and a pair whose reverse strand
\* is strictly higher (reverse kept).
MaskoutTieAndReverseSeen ==
    /\ mk.pc = "done" /\ mk.flag = "on" /\ Len(mk.Z) = 4
    /\ mk.Z[1] = mk.Z[2] /\ mk.out.Zmask[1]
    /\ mk.Z[3] < mk.Z[4] /\ mk.out.Zmask[4]
    /\ mk.out.Z = <<mk.Z[1], mk.Z[4]>>

(***************************************************************************)
(* The window slicer of gen_convnet_predictionmaps (predict.py 297-306).   *)
(***************************************************************************)
MaxLen == 4
MaxWindow == 3
MaxStride == 3

\* The symbols of a raw sequence; "N" is the unknown symbol used for padding.
Bases == {"A", "C", "G", "T"}

\* Python's seq[lo:hi] for 0 <= lo: positions lo..hi-1, clipped to the
\* sequence's end.
Slice(seq, lo, hi) ==
    LET top == Min(hi, Len(seq))
    IN  IF lo >= top THEN <<>> ELSE [n \in 1..(top - lo) |-> seq[lo + n]]

\* Python's "N"*n: n copies of the unknown symbol (none for n <= 0).
Ns(n) == [k \in 1..Max(n, 0) |-> "N"]

\* Python's range(start, stop, step) for step >= 1, as a sequence.
Range(start, stop, step) ==
    IF stop <= start THEN <<>>
    ELSE [k \in 1..(((stop - start) + step - 1) \div step) |-> start + (k - 1) * step]

\* Line 302 with the padding one symbol short on each side.
padseq_short(rawseq, windowsize) == Ns(windowsize - 2) \o rawseq \o Ns(windowsize - 2)

\* Line 302: padseq = "N"*(windowsize-1) + rawseq + "N"*(windowsize-1)
padseq(rawseq, windowsize) == Ns(windowsize - 1) \o rawseq \o Ns(windowsize - 1)

\* Line 303 with the stop of the range one too small.
window_starts_short(padlen, windowsize, stride) ==
    Range(0, Max(1, padlen - windowsize), stride)

\* Line 303: range(0, max(1, len(padseq)-windowsize+1), stride)
window_starts(padlen, windowsize, stride) ==
    Range(0, Max(1, padlen - windowsize + 1), stride)

\* Line 303: the windows of one raw sequence, in slicing order.
windows_of(rawseq, windowsize, stride) ==
    LET ps == padseq(rawseq, windowsize)
        st == window_starts(Len(ps), windowsize, stride)
    IN  [k \in 1..Len(st) |-> Slice(ps, st[k], st[k] + windowsize)]

SlInit ==
    /\ sl \in {[pc |-> "pad", data_X |-> s, rawseq |-> s, windowsize |-> w, stride |-> st,
                padseq |-> <<>>, starts |-> <<>>, chunk_X |-> <<>>, nwindows |-> 0] :
                 s \in SeqsUpTo(Bases, MaxLen), w \in 1..MaxWindow, st \in 1..MaxStride}
    /\ mk = Off /\ gm = Off /\ wc = Off /\ pr = Off /\ fd = Off /\ pm = Off

\* Line 302, and the range of line 303 that the comprehension walks.
PadSequence ==
    /\ sl.pc = "pad"
    /\ LET ps == padseq(sl.rawseq, sl.windowsize)
       IN  sl' = [sl EXCEPT !.pc = "slice", !.padseq = ps,
                            !.starts = window_starts(Len(ps), sl.windowsize, sl.stride)]
    /\ UNCHANGED <<mk, gm, wc, pr, fd, pm>>

\* Line 303: one step of the comprehension, padseq[i:i+windowsize] for the
\* next i of the range.
SliceWindow ==
    /\ sl.pc = "slice"
    /\ Len(sl.chunk_X) < Len(sl.starts)
    /\ LET i == sl.starts[Len(sl.chunk_X) + 1]
       IN  sl' = [sl EXCEPT !.chunk_X = Append(@, Slice(sl.padseq, i, i + sl.windowsize))]
    /\ UNCHANGED <<mk, gm, wc, pr, fd, pm>>

\* Lines 304-306: the comprehension is exhausted; the chunk's sequence
\* attribute becomes the window list and nwindows its length.  rawseq, the
\* local copy taken at line 297, is not written.
SliceDone ==
    /\ sl.pc = "slice"
    /\ Len(sl.chunk_X) = Len(sl.starts)
    /\ sl' = [sl EXCEPT !.pc = "done", !.nwindows = Len(sl.chunk_X)]
    /\ UNCHANGED <<mk, gm, wc, pr, fd, pm>>

SlNext == PadSequence \/ SliceWindow \/ SliceDone

SpecSlicer == SlInit /\ [][SlNext]_vars

\* ceil(a / b) for a >= 0, b >= 1.
CeilDiv(a, b) == (a + b - 1) \div b

\* The case in which the padded sequence is empty: an empty raw sequence and
\* a window of one symbol.
EmptyPadded == Len(sl.data_X) = 0 /\ sl.windowsize = 1

\* C6 as stated: with stride 1 the number of windows of S is len(S) + w - 1,
\* for every length including the empty sequence.
Stride1WindowCountAsClaimed ==
    (sl.pc = "done" /\ sl.stride = 1) =>
        sl.nwindows = Len(sl.data_X) + sl.windowsize - 1

\* C6 amended: with stride 1 the number of windows of S is
\* max(1, len(S) + w - 1): len(S) + w - 1 in every case but the empty
\* sequence with w = 1, which still yields one window.
Stride1WindowCount ==
    (sl.pc = "done" /\ sl.stride = 1) =>
        /\ sl.nwindows = Max(1, Len(sl.data_X) + sl.windowsize - 1)
        /\ ~EmptyPadded => sl.nwindows = Len(sl.data_X) + sl.windowsize - 1
        /\ EmptyPadded => sl.nwindows = 1

\* Stride-1 slicing has finished on a non-empty sequence with overlapping
\* windows, and on the way the count len(S) + w - 1 was reached.
Stride1Sliced ==
    /\ sl.pc = "done" /\ sl.stride = 1
    /\ Len(sl.data_X) = 3 /\ sl.windowsize = 2
    /\ sl.nwindows = 4

\* C7 as stated: padding of w-1 'N' on each side; windows padded[i, i+w) for
\* i = 0, s, 2s, ... with i <= len(padded) - w, in increasing order of i;
\* every window has exactly w symbols; at least one window; the count is
\* max(1, ceil((L + w - 1) / s)); the raw sequence is unchanged.
WindowsAsClaimed ==
    sl.pc = "done" =>
        LET L == Len(sl.data_X)
            w == sl.windowsize
            s == sl.stride
            padded == Ns(w - 1) \o sl.data_X \o Ns(w - 1)
        IN  /\ sl.padseq = padded
            /\ sl.nwindows = Len(sl.chunk_X)
            /\ sl.nwindows >= 1
            /\ sl.nwindows = Max(1, CeilDiv(L + w - 1, s))
            /\ \A k \in 1..sl.nwindows :
                  LET i == (k - 1) * s
                  IN  /\ i <= Len(padded) - w
                      /\ Len(sl.chunk_X[k]) = w
                      /\ \A n \in 1..w : sl.chunk_X[k][n] = padded[i + n]
            /\ sl.nwindows * s > Len(padded) - w
            /\ sl.rawseq = sl.data_X

\* C7 amended: as stated whenever the padded sequence is not empty
\* (L + w - 1 >= 1); for the empty sequence with w = 1 the padded sequence is
\* empty and exactly one window is emitted, at i = 0 > len(padded) - w, and
\* it is empty (0 symbols, not w).
WindowsOfPadded ==
    sl.pc = "done" =>
        LET L == Len(sl.data_X)
            w == sl.windowsize
            s == sl.stride
            padded == Ns(w - 1) \o sl.data_X \o Ns(w - 1)
        IN  /\ sl.padseq = padded
            /\ sl.nwindows = Len(sl.chunk_X)
            /\ sl.nwindows >= 1
            /\ sl.nwindows = Max(1, CeilDiv(L + w - 1, s))
            /\ sl.rawseq = sl.data_X
            /\ ~EmptyPadded =>
                  /\ \A k \in 1..sl.nwindows :
                        LET i == (k - 1) * s
                        IN  /\ i <= Len(padded) - w
                            /\ Len(sl.chunk_X[k]) = w
                            /\ \A n \in 1..w : sl.chunk_X[k][n] = padded[i + n]
                  /\ sl.nwindows * s > Len(padded) - w
            /\ EmptyPadded => sl.chunk_X = << <<>> >>

\* The scenario of the specification: "ACGT", window size 2, stride 1 is
\* padded to "NACGTN" and gives "NA","AC","CG","GT","TN".
WindowsScenarioSeen ==
    /\ sl.pc = "done"
    /\ sl.data_X = <<"A", "C", "G", "T">> /\ sl.windowsize = 2 /\ sl.stride = 1
    /\ sl.padseq = <<"N", "A", "C", "G", "T", "N">>
    /\ sl.chunk_X = << <<"N", "A">>, <<"A", "C">>, <<"C", "G">>, <<"G", "T">>, <<"T", "N">> >>

(***************************************************************************)
(* Attribution-map assembly of gen_convnet_predictionmaps (predict.py      *)
(* 327-343), for one sequence of a chunk.                                  *)
(***************************************************************************)
MaxGrad == 1

\* The number of symbol columns of a gradient map (line 330).
NBase == 4

\* A float: a finite value n/d in lowest terms (kind "num"), NaN, or an
\* infinity of sign n.  "max" is the largest finite float of sign n, which is
\* what nan_to_num puts in place of an infinity.
Num(n, d) == [k |-> "num", n |-> n, d |-> d]
NaN == [k |-> "nan", n |-> 0, d |-> 0]
Inf(sgn) == [k |-> "inf", n |-> sgn, d |-> 0]
FloatMax(sgn) == [k |-> "max", n |-> sgn, d |-> 1]

Abs(x) == IF x < 0 THEN 0 - x ELSE x

RECURSIVE GCD(_, _)
GCD(a, b) == IF b = 0 THEN a ELSE GCD(b, a % b)

\* numpy's float division x / y of two finite integral values.
FDiv(x, y) ==
    IF y = 0
    THEN (IF x = 0 THEN NaN ELSE Inf(IF x > 0 THEN 1 ELSE 0 - 1))
    ELSE LET g == GCD(Abs(x), Abs(y))
             sg == IF y < 0 THEN 0 - 1 ELSE 1
         IN  Num(sg * (x \div g), sg * (y \div g))

\* np.nan_to_num: NaN becomes 0, an infinity the largest finite float.
nan_to_num(v) ==
    IF v.k = "nan" THEN Num(0, 1)
    ELSE IF v.k = "inf" THEN FloatMax(v.n)
    ELSE v

\* The per-window gradient that gen_convnet_predictions returns for a window
\* of len symbols: one row of NBase values per symbol.  g selects one of the
\* modelled gradients; the values differ by row and by column and take both
\* signs and zero.
WindowGrad(g, len) ==
    [k \in 1..len |-> [c \in 1..NBase |-> g * (c - 2) + k - 2]]

ZeroRows(n) == [p \in 1..n |-> [c \in 1..NBase |-> 0]]

\* numpy's in-place  target[lo:hi] += value  on row arrays: the slice is
\* clipped to the target; value must have as many rows as the slice, or one
\* row (broadcast over the slice).  ok is FALSE for the ValueError of a shape
\* mismatch, and then the target is unchanged.
AddInto(target, lo, hi, value) ==
    LET top == Min(hi, Len(target))
        n == IF lo >= top THEN 0 ELSE top - lo
    IN  IF Len(value) = n
        THEN [ok |-> TRUE,
              arr |-> [p \in 1..Len(target) |->
                         IF p > lo /\ p <= top
                         THEN [c \in 1..NBase |-> target[p][c] + value[p - lo][c]]
                         ELSE target[p]]]
        ELSE IF Len(value) = 1
        THEN [ok |-> TRUE,
              arr |-> [p \in 1..Len(target) |->
                         IF p > lo /\ p <= top
                         THEN [c \in 1..NBase |-> target[p][c] + value[1][c]]
                         ELSE target[p]]]
        ELSE [ok |-> FALSE, arr |-> target]

\* np.ones_like(dX_j)
ones_like(value) == [k \in 1..Len(value) |-> [c \in 1..NBase |-> 1]]

\* Line 338: dX[start_window_idx+j][1][:min(windowsize, (end-start-j)*stride)]
\* for the 0-based window index j of nwin windows.
clip_dX(dXj, j, nwin, windowsize, stride) ==
    Slice(dXj, 0, Min(windowsize, (nwin - j) * stride))

\* Lines 341-342 without the division: the accumulated sums are returned.
normalize_gmap_sum(gmap, denom) ==
    [p \in 1..Len(gmap) |-> [c \in 1..NBase |-> nan_to_num(Num(gmap[p][c], 1))]]

\* Lines 341-342: gmap /= denom; gmap = np.nan_to_num(gmap)
normalize_gmap(gmap, denom) ==
    [p \in 1..Len(gmap) |-> [c \in 1..NBase |-> nan_to_num(FDiv(gmap[p][c], denom[p][c]))]]

\* A raw sequence of length n (its symbols do not matter to the assembly).
SeqOfLen(n) == [k \in 1..n |-> "A"]

GmInit ==
    /\ \E L \in 0..MaxLen, w \in 1..MaxWindow, st \in 1..MaxStride :
         LET wins == windows_of(SeqOfLen(L), w, st)
         IN  \E g \in [1..Len(wins) -> 0..MaxGrad] :
               gm = [pc |-> "alloc", L |-> L, windowsize |-> w, stride |-> st,
                     nwin |-> Len(wins),
                     dX |-> [n \in 1..Len(wins) |-> WindowGrad(g[n], Len(wins[n]))],
                     j |-> 0, gmap |-> <<>>, denom |-> <<>>, out |-> <<>>]
    /\ mk = Off /\ sl = Off /\ wc = Off /\ pr = Off /\ fd = Off /\ pm = Off

\* Lines 330-335: the accumulator and the denominator, L + w - 1 rows of zeros.
AllocGmap ==
    /\ gm.pc = "alloc"
    /\ gm' = [gm EXCEPT !.pc = "fold", !.j = 0,
                        !.gmap = ZeroRows(gm.L + gm.windowsize - 1),
                        !.denom = ZeroRows(gm.L + gm.windowsize - 1)]
    /\ UNCHANGED <<mk, sl, wc, pr, fd, pm>>

\* Lines 336-340: one iteration of the loop over the windows of the sequence.
\* A shape mismatch at line 339 raises ValueError out of the function.
FoldWindow ==
    /\ gm.pc = "fold"
    /\ gm.j < gm.nwin
    /\ LET dX_j == clip_dX(gm.dX[gm.j + 1], gm.j, gm.nwin, gm.windowsize, gm.stride)
           lo == gm.j * gm.stride
           g2 == AddInto(gm.gmap, lo, lo + gm.windowsize, dX_j)
           d2 == AddInto(gm.denom, lo, lo + gm.windowsize, ones_like(dX_j))
       IN  IF g2.ok
           THEN gm' = [gm EXCEPT !.gmap = g2.arr, !.denom = d2.arr, !.j = @ + 1]
           ELSE gm' = [gm EXCEPT !.pc = "raised"]
    /\ UNCHANGED <<mk, sl, wc, pr, fd, pm>>

\* Lines 341-343: after the last window the sums are divided by the counts
\* and the map is appended to gradientmaps.
NormalizeGmap ==
    /\ gm.pc = "fold"
    /\ gm.j = gm.nwin
    /\ gm' = [gm EXCEPT !.pc = "done", !.out = normalize_gmap(gm.gmap, gm.denom)]
    /\ UNCHANGED <<mk, sl, wc, pr, fd, pm>>

GmNext == AllocGmap \/ FoldWindow \/ NormalizeGmap

SpecGmap == GmInit /\ [][GmNext]_vars

\* The contribution span of window j (0-based) of the assembled sequence
\* covers row p (1-based): the clipped contribution starts at row j*s + 1.
Covers(j, p) ==
    LET len == Len(clip_dX(gm.dX[j + 1], j, gm.nwin, gm.windowsize, gm.stride))
    IN  j * gm.stride < p /\ p <= j * gm.stride + len

CoverCount(p) == Cardinality({j \in 0..(gm.nwin - 1) : Covers(j, p)})

\* The sum over the windows 0..j that cover row p of their contribution to
\* cell (p, c).
RECURSIVE CoverSum(_, _, _)
CoverSum(j, p, c) ==
    IF j < 0 THEN 0
    ELSE (IF Covers(j, p) THEN gm.dX[j + 1][p - j * gm.stride][c] ELSE 0)
         + CoverSum(j - 1, p, c)

\* C8: in a built attribution map, for every (position, symbol) cell the
\* denominator is >= 0 and equals the number of windows whose contribution
\* span covers the position; when it is > 0 the cell is the sum of those
\* windows' contributions divided by that count (the mean); when it is 0 the
\* cell is exactly 0, never NaN or infinite.
GmapIsMeanOfCover ==
    gm.pc = "done" =>
        /\ Len(gm.out) = gm.L + gm.windowsize - 1
        /\ \A p \in 1..Len(gm.out) : \A c \in 1..NBase :
              LET n == CoverCount(p)
              IN  /\ gm.denom[p][c] >= 0
                  /\ gm.denom[p][c] = n
                  /\ gm.out[p][c].k = "num"
                  /\ n > 0 => gm.out[p][c] = FDiv(CoverSum(gm.nwin - 1, p, c), n)
                  /\ n = 0 => gm.out[p][c] = Num(0, 1)

\* A built map with a position no window covers (denominator 0, value 0)
\* next to a covered position with a non-zero value.
GmapUncoveredSeen ==
    /\ gm.pc = "done"
    /\ \E p \in 1..Len(gm.out) : gm.denom[p][1] = 0 /\ gm.out[p][1] = Num(0, 1)
    /\ \E p \in 1..Len(gm.out) : gm.denom[p][1] = 1 /\ gm.out[p][1].n # 0

\* A built map with a position covered by two windows whose mean is not
\* their sum.
GmapOverlapSeen ==
    /\ gm.pc = "done"
    /\ \E p \in 1..Len(gm.out) : \E c \in 1..NBase :
          /\ gm.denom[p][c] = 2
          /\ gm.gmap[p][c] # 0
          /\ gm.out[p][c] = FDiv(gm.gmap[p][c], 2)

\* The number of accumulator rows of the span gmap[j*s : j*s + w] of window j
\* (0-based): the slice ends with the accumulator.
SpanLen(j) ==
    LET rows == gm.L + gm.windowsize - 1
        lo == j * gm.stride
    IN  Max(0, Min(lo + gm.windowsize, rows) - lo)

\* C12 as stated: for every sequence length, window size, stride and window
\* index j, the clipped contribution of window j has at most w rows and
\* exactly as many rows as the accumulator span at offset j*s, so the
\* assembly never stops on a length mismatch.
ContributionFitsSpan ==
    /\ gm.pc # "raised"
    /\ (gm.pc = "fold" /\ gm.j < gm.nwin) =>
          LET dX_j == clip_dX(gm.dX[gm.j + 1], gm.j, gm.nwin, gm.windowsize, gm.stride)
          IN  Len(dX_j) <= gm.windowsize /\ Len(dX_j) = SpanLen(gm.j)

\* The rows of the accumulator left over after the last whole stride.
StrideRemainder == (gm.L + gm.windowsize - 1) % gm.stride

\* C12 as the code has it: the assembly stops on a length mismatch exactly
\* for the strides that do not divide the L + w - 1 rows of the accumulator
\* and leave fewer than w rows over; for every other stride, stride 1 among
\* them, every contribution fits its span and the map is built.
ContributionFitsSpanForStride ==
    LET misfit == StrideRemainder # 0 /\ StrideRemainder < gm.windowsize
    IN  /\ gm.pc = "raised" => misfit
        /\ gm.pc = "done" => ~misfit
        /\ (gm.pc = "fold" /\ gm.j < gm.nwin /\ ~misfit) =>
              LET dX_j == clip_dX(gm.dX[gm.j + 1], gm.j, gm.nwin, gm.windowsize, gm.stride)
              IN  Len(dX_j) <= gm.windowsize /\ Len(dX_j) = SpanLen(gm.j)

(***************************************************************************)
(* predict_worker.__call__ (predict.py 394-456).                           *)
(***************************************************************************)
MaxSeqs == 2

\* An exception raised during a job: the step that raised it and whether its
\* .message is a string.  BaseException.message is args[0] when the exception
\* was built with exactly one argument, whatever its type; KeyError(3) and
\* cPickle.BadPickleGet(5) carry an int.
Exc(where, strmsg) == [where |-> where, strmsg |-> strmsg]
NoExc == Exc("none", TRUE)

\* What can go wrong in a job apart from what its parameters decide: nothing,
\* or an exception out of load_model (405), out of the prediction generators
\* (419-429) or out of the numpy aggregation (434-447).  The latter are
\* numpy's, with string messages; the others are arbitrary.
Faults ==
    {NoExc} \cup {Exc(s, m) : s \in {"load", "generate"}, m \in BOOLEAN}
            \cup {Exc("collect", TRUE)}

\* The job tuple of line 398 as far as __call__ reads it.  wellformed: the
\* tuple has nine items.  modelinfo: the key it holds ("PFM", "model", or
\* neither).  scan: 0 for None (scan disabled), else the window size.
\* want_gmaps: "no" for False, else "yes" or "finite_diff".
WorkerParams ==
    [modelid : {"m1"}, wellformed : BOOLEAN, modelinfo : {"PFM", "model", "bad"},
     scan : {0, 2}, nseq : 1..MaxSeqs, want_pmaps : BOOLEAN,
     want_gmaps : {"no", "yes", "finite_diff"}, flag : RevcompFlags, fault : Faults]

\* The scores model.eval returns for a batch of nseq sequences (line 183-185):
\* one per sequence, or an interleaved (forward, reverse) pair per sequence
\* when double-strand scoring is on.
eval_Z(nseq, flag) ==
    [n \in 1..(IF flag = "absent" THEN nseq ELSE 2 * nseq) |-> ((n * n) % 3) - 1]

\* gen_convnet_predictions (172-195, 268): the number of rows of the stacked,
\* strand-resolved predictions of the single batch of nseq sequences.
direct_rows(nseq, flag) == Len(maskout_revcomp(eval_Z(nseq, flag), flag).Z)

\* Lines 432-447 with every job treated as a scan job.
result_suffixes_scan(scan, pfm, want_pmaps, want_gmaps) ==
    {".direct", ".max", ".avg", ".sum"}
        \cup (IF want_pmaps THEN {".pmaps"} ELSE {})
        \cup (IF want_gmaps # "no" THEN {".gmaps"} ELSE {})

\* Lines 432-447: the suffixes of the keys of the result mapping; "" is the
\* bare key "<modelid>".
result_suffixes(scan, pfm, want_pmaps, want_gmaps) ==
    IF scan # 0 \/ pfm
    THEN {".direct", ".max", ".avg", ".sum"}
            \cup (IF want_pmaps THEN {".pmaps"} ELSE {})
            \cup (IF want_gmaps # "no" THEN {".gmaps"} ELSE {})
    ELSE {""} \cup (IF want_gmaps # "no" THEN {".gmaps"} ELSE {})

NoPredictions == [keys |-> {}, rows |-> 0]

\* Lines 397-449, the body of the try: the exception it raises, or the
\* result mapping (its keys, and the number of rows of the direct
\* predictions).
try_body(p) ==
    LET failed(e) == [raised |-> TRUE, exc |-> e, predictions |-> NoPredictions]
        pfm == p.modelinfo = "PFM"
    IN  IF ~p.wellformed THEN failed(Exc("unpack", TRUE))
        ELSE IF p.modelinfo = "bad" THEN failed(Exc("load", TRUE))
        ELSE IF p.fault.where = "load" THEN failed(p.fault)
        ELSE IF ~pfm /\ p.scan = 0 /\ p.want_pmaps THEN failed(Exc("generate", TRUE))
        ELSE IF p.fault.where = "generate" THEN failed(p.fault)
        ELSE IF p.fault.where = "collect" THEN failed(p.fault)
        ELSE [raised |-> FALSE, exc |-> NoExc,
              predictions |->
                 [keys |-> {<<p.modelid, s>> :
                              s \in result_suffixes(p.scan, pfm, p.want_pmaps, p.want_gmaps)},
                  rows |-> IF pfm THEN p.nseq ELSE direct_rows(p.nseq, p.flag)]]

\* What a call ends with: the result mapping ("dict"), the failure record
\* (err, traceback_str) as its return value ("failure_record"), or an
\* exception leaving the call ("raise").
Outcome(kind, exc, predictions) == [kind |-> kind, exc |-> exc, predictions |-> predictions]

\* Lines 451-456, the except clause.  Line 453 evaluates
\* err.message + "\n" + traceback_str, which is a TypeError when err.message
\* is not a string; that TypeError leaves the call.
except_clause(exc, allow_multiprocessing) ==
    IF ~exc.strmsg THEN Outcome("raise", Exc("handler", TRUE), NoPredictions)
    ELSE IF ~allow_multiprocessing THEN Outcome("raise", exc, NoPredictions)
    ELSE Outcome("failure_record", exc, NoPredictions)

\* predict_worker.__call__(params) as a whole.
predict_worker_call(p, allow_multiprocessing) ==
    LET r == try_body(p)
    IN  IF r.raised THEN except_clause(r.exc, allow_multiprocessing)
        ELSE Outcome("dict", NoExc, r.predictions)

WcInit ==
    /\ wc \in {[pc |-> "call", params |-> p, allow_multiprocessing |-> a,
                exc |-> NoExc, out |-> Outcome("none", NoExc, NoPredictions)] :
                 p \in WorkerParams, a \in BOOLEAN}
    /\ mk = Off /\ sl = Off /\ gm = Off /\ pr = Off /\ fd = Off /\ pm = Off

\* Lines 397-449: the try body runs to its return.
CallReturns ==
    /\ wc.pc = "call"
    /\ ~try_body(wc.params).raised
    /\ wc' = [wc EXCEPT !.pc = "returned",
                        !.out = Outcome("dict", NoExc, try_body(wc.params).predictions)]
    /\ UNCHANGED <<mk, sl, gm, pr, fd, pm>>

\* Lines 397-449: the try body raises and control enters the except clause.
CallRaises ==
    /\ wc.pc = "call"
    /\ try_body(wc.params).raised
    /\ wc' = [wc EXCEPT !.pc = "except", !.exc = try_body(wc.params).exc]
    /\ UNCHANGED <<mk, sl, gm, pr, fd, pm>>

\* Lines 451-456.
CallExcept ==
    /\ wc.pc = "except"
    /\ LET o == except_clause(wc.exc, wc.allow_multiprocessing)
       IN  wc' = [wc EXCEPT !.pc = IF o.kind = "raise" THEN "raised" ELSE "returned",
                            !.out = o]
    /\ UNCHANGED <<mk, sl, gm, pr, fd, pm>>

WcNext == CallReturns \/ CallRaises \/ CallExcept

SpecWorker == WcInit /\ [][WcNext]_vars

\* The call has ended after its try body raised.
CallFailed == wc.pc \in {"returned", "raised"} /\ wc.exc # NoExc

\* C2: for any failure raised at any step of a job, with multiprocessing
\* isolation enabled the call does not propagate the failure and returns the
\* failure record (err, trace); with isolation disabled the call returns no
\* failure record and the failure propagates.
FailureRecordOrPropagate ==
    CallFailed =>
        /\ wc.allow_multiprocessing =>
              (wc.pc = "returned" /\ wc.out.kind = "failure_record" /\ wc.out.exc = wc.exc)
        /\ ~wc.allow_multiprocessing =>
              (wc.pc = "raised" /\ wc.out.kind = "raise")

\* C2 for the failures whose message is a string: the part of the claim the
\* code keeps.
StrFailureRecordOrPropagate ==
    (CallFailed /\ wc.exc.strmsg) =>
        /\ wc.allow_multiprocessing =>
              (wc.pc = "returned" /\ wc.out.kind = "failure_record" /\ wc.out.exc = wc.exc)
        /\ ~wc.allow_multiprocessing =>
              (wc.pc = "raised" /\ wc.out.kind = "raise" /\ wc.out.exc = wc.exc)

\* The job of C5: an evaluable (non-PFM) model, scan disabled, and the call
\* returned its result mapping.
DirectJobSucceeded ==
    /\ wc.pc = "returned" /\ wc.out.kind = "dict"
    /\ wc.params.modelinfo = "model" /\ wc.params.scan = 0

Suffixes(keys) == {k[2] : k \in keys}

\* C5 as stated: the result mapping of a successful direct job has exactly
\* one key, "<model_id>", with one prediction row per input sequence, and no
\* suffixed key.
DirectJobOneKeyAsClaimed ==
    DirectJobSucceeded =>
        /\ wc.out.predictions.keys = {<<wc.params.modelid, "">>}
        /\ wc.out.predictions.rows = wc.params.nseq

\* C5 amended: the mapping has the key "<model_id>" with one prediction row
\* per input sequence and none of .direct, .max, .avg, .sum, .pmaps; it is
\* the only key when attribution maps are not requested, and when they are
\* (want_gmaps) the mapping has exactly one more key, "<model_id>.gmaps".
DirectJobKeys ==
    DirectJobSucceeded =>
        /\ <<wc.params.modelid, "">> \in wc.out.predictions.keys
        /\ wc.out.predictions.rows = wc.params.nseq
        /\ \A k \in wc.out.predictions.keys : k[1] = wc.params.modelid
        /\ Suffixes(wc.out.predictions.keys) \cap {".direct", ".max", ".avg", ".sum", ".pmaps"} = {}
        /\ wc.params.want_gmaps = "no" => Suffixes(wc.out.predictions.keys) = {""}
        /\ wc.params.want_gmaps # "no" => Suffixes(wc.out.predictions.keys) = {"", ".gmaps"}

\* A successful direct job on two double-stranded sequences with attribution
\* maps requested: two keys, and one row per sequence under the bare key.
DirectJobGmapsKeySeen ==
    /\ DirectJobSucceeded
    /\ wc.params.want_gmaps = "yes" /\ wc.params.flag = "on" /\ wc.params.nseq = 2
    /\ wc.out.predictions = [keys |-> {<<"m1", "">>, <<"m1", ".gmaps">>}, rows |-> 2]

(***************************************************************************)
(* predict (predict.py 466-508) with its pool of workers (353-367) and     *)
(* _check_worker_result (459-463).                                         *)
(***************************************************************************)
MaxJobs == 3
MaxWorkers == 2

\* How the job of one model ends inside its worker: it succeeds, it fails
\* with an exception whose message is a string, or with one whose message is
\* not a string.
JobKinds == {"ok", "fail_str", "fail_nonstr"}

\* Line 485: the job tuple of the k-th model id in sorted order.
workerarg(k, kind) ==
    [modelid |-> k, wellformed |-> TRUE, modelinfo |-> "model", scan |-> 0, nseq |-> 1,
     want_pmaps |-> FALSE, want_gmaps |-> "no", flag |-> "absent",
     fault |-> IF kind = "ok" THEN NoExc ELSE Exc("load", kind = "fail_str")]

\* A failure leaving predict: SystemExit out of quit() carrying the message
\* and trace of job's failure record, or the exception that left job's
\* worker call ("worker_exception").
Failure(type, job, exc) == [type |-> type, job |-> job, carries |-> exc]
NoFailure == Failure("none", 0, NoExc)

\* Lines 459-463 with the failure record passed on as if it were a result.
check_worker_result_blind(k, result) == NoFailure

\* _check_worker_result (459-463) on the result of job k: the failure that
\* quit() raises for a failure record (the concatenation of line 462 is a
\* TypeError when the message is not a string), or none.
check_worker_result(k, result) ==
    IF result.kind = "failure_record"
    THEN (IF result.exc.strmsg THEN Failure("SystemExit", k, result.exc)
          ELSE Failure("TypeError", k, Exc("check", TRUE)))
    ELSE NoFailure

Pending == Outcome("none", NoExc, NoPredictions)

Worker(state, inits, dels, job) == [state |-> state, inits |-> inits, dels |-> dels, job |-> job]

PrInit ==
    /\ \E a \in BOOLEAN, n \in 1..MaxJobs, nw \in 1..MaxWorkers :
         \E kinds \in [1..n -> JobKinds] :
           pr = [pc |-> "start", allow_multiprocessing |-> a, kinds |-> kinds,
                 nworker |-> IF a THEN nw ELSE 1,
                 workers |-> [w \in 1..(IF a THEN nw ELSE 1) |-> Worker("Uninitialized", 0, 0, 0)],
                 pool |-> <<>>, taken |-> {}, results |-> [k \in 1..n |-> Pending],
                 first_raised |-> 0, k |-> 1, predictions |-> {},
                 failure |-> NoFailure, returned |-> FALSE]
    /\ mk = Off /\ sl = Off /\ gm = Off /\ wc = Off /\ fd = Off /\ pm = Off

NJobs == Len(pr.kinds)
PoolAlive == pr.pool # <<>> /\ pr.pool[Len(pr.pool)] \in {"create", "close"}

\* Line 488 and the call of pool.map at line 491: the pool's processes are
\* started and every job is queued.
CreatePool ==
    /\ pr.pc = "start" /\ pr.allow_multiprocessing
    /\ pr' = [pr EXCEPT !.pc = "map", !.pool = <<"create">>]
    /\ UNCHANGED <<mk, sl, gm, wc, fd, pm>>

\* Lines 355-357 in a pool process: the initializer builds the worker
\* instance before the process takes any job.
WorkerInit(w) ==
    /\ pr.allow_multiprocessing /\ PoolAlive
    /\ pr.workers[w].state = "Uninitialized"
    /\ pr' = [pr EXCEPT !.workers[w] = Worker("Ready", @.inits + 1, @.dels, 0)]
    /\ UNCHANGED <<mk, sl, gm, wc, fd, pm>>

\* A pool process takes the next queued job and enters _predict_worker_main
\* (359-361).
WorkerTake(w) ==
    /\ pr.allow_multiprocessing /\ PoolAlive
    /\ pr.workers[w].state = "Ready"
    /\ \E k \in 1..NJobs :
         /\ k \notin pr.taken
         /\ \A h \in 1..(k - 1) : h \in pr.taken
         /\ pr' = [pr EXCEPT !.workers[w].state = "Busy", !.workers[w].job = k,
                             !.taken = @ \cup {k}]
    /\ UNCHANGED <<mk, sl, gm, wc, fd, pm>>

\* The job's call ends in its process and its outcome goes back to the pool:
\* a return value, or the exception that left the call.  The first exception
\* to arrive is the one pool.map raises.
WorkerFinish(w) ==
    /\ pr.allow_multiprocessing /\ PoolAlive
    /\ pr.workers[w].state = "Busy"
    /\ LET k == pr.workers[w].job
           o == predict_worker_call(workerarg(k, pr.kinds[k]), TRUE)
       IN  pr' = [pr EXCEPT !.workers[w].state = "Ready", !.workers[w].job = 0,
                            !.results[k] = o,
                            !.first_raised = IF @ = 0 /\ o.kind = "raise" THEN k ELSE @]
    /\ UNCHANGED <<mk, sl, gm, wc, fd, pm>>

\* After pool.close() a process that finds the queue empty exits; the
\* worker instance goes with it (389-392).
WorkerExit(w) ==
    /\ pr.allow_multiprocessing
    /\ pr.pool # <<>> /\ pr.pool[Len(pr.pool)] = "close"
    /\ pr.workers[w].state = "Ready"
    /\ pr.taken = 1..NJobs
    /\ pr' = [pr EXCEPT !.workers[w] = Worker("Destroyed", @.inits, @.dels + 1, 0)]
    /\ UNCHANGED <<mk, sl, gm, wc, fd, pm>>

\* Line 491: pool.map returns the list of all results once every job has
\* returned.
MapReturns ==
    /\ pr.pc = "map"
    /\ pr.first_raised = 0
    /\ \A k \in 1..NJobs : pr.results[k].kind # "none"
    /\ pr' = [pr EXCEPT !.pc = "merge", !.k = 1]
    /\ UNCHANGED <<mk, sl, gm, wc, fd, pm>>

\* Line 491: pool.map raises the first exception that left a worker call,
\* without waiting for the jobs still running.
MapRaises ==
    /\ pr.pc = "map"
    /\ pr.first_raised # 0
    /\ pr' = [pr EXCEPT !.pc = "except",
                        !.failure = Failure("worker_exception", pr.first_raised,
                                            pr.results[pr.first_raised].exc)]
    /\ UNCHANGED <<mk, sl, gm, wc, fd, pm>>

\* Lines 491-492: one iteration of the loop over the results; a failure
\* record raises out of the try, anything else is merged.
MergeResult ==
    /\ pr.pc = "merge"
    /\ pr.k <= NJobs
    /\ LET f == check_worker_result(pr.k, pr.results[pr.k])
       IN  IF f # NoFailure
           THEN pr' = [pr EXCEPT !.pc = "except", !.failure = f]
           ELSE pr' = [pr EXCEPT !.k = @ + 1,
                                 !.predictions = @ \cup pr.results[pr.k].predictions.keys]
    /\ UNCHANGED <<mk, sl, gm, wc, fd, pm>>

\* What pool.terminate() does to the processes: every one that still runs is
\* killed, whatever it is doing.
terminated_workers(workers) ==
    [w \in DOMAIN workers |->
        IF workers[w].state = "Destroyed" THEN workers[w]
        ELSE Worker("Destroyed", workers[w].inits, workers[w].dels + 1, 0)]

\* Lines 493-494: the bare except clause calls pool.terminate().
PoolTerminate ==
    /\ pr.pc = "except"
    /\ pr' = [pr EXCEPT !.pc = "join_abort", !.pool = Append(@, "terminate"),
                        !.workers = terminated_workers(pr.workers)]
    /\ UNCHANGED <<mk, sl, gm, wc, fd, pm>>

\* Lines 495-496: pool.join(), then the failure is re-raised out of predict.
PoolJoinAbort ==
    /\ pr.pc = "join_abort"
    /\ \A w \in 1..pr.nworker : pr.workers[w].state = "Destroyed"
    /\ pr' = [pr EXCEPT !.pc = "raised", !.pool = Append(@, "join")]
    /\ UNCHANGED <<mk, sl, gm, wc, fd, pm>>

\* Lines 497-498: the loop ended without an exception; pool.close().
PoolClose ==
    /\ pr.pc = "merge"
    /\ pr.k > NJobs
    /\ pr' = [pr EXCEPT !.pc = "join", !.pool = Append(@, "close")]
    /\ UNCHANGED <<mk, sl, gm, wc, fd, pm>>

\* Lines 499 and 508: pool.join() returns when every process has exited;
\* predict returns the merged mapping.
PoolJoin ==
    /\ pr.pc = "join"
    /\ \A w \in 1..pr.nworker : pr.workers[w].state = "Destroyed"
    /\ pr' = [pr EXCEPT !.pc = "returned", !.pool = Append(@, "join"), !.returned = TRUE]
    /\ UNCHANGED <<mk, sl, gm, wc, fd, pm>>

\* Lines 502-503: debug mode builds the single worker in the main process.
DebugInit ==
    /\ pr.pc = "start" /\ ~pr.allow_multiprocessing
    /\ pr' = [pr EXCEPT !.pc = "debug_loop", !.k = 1,
                        !.workers[1] = Worker("Ready", @.inits + 1, @.dels, 0)]
    /\ UNCHANGED <<mk, sl, gm, wc, fd, pm>>

\* Lines 504-505: the loop calls _predict_worker_main for the next job.
DebugCall ==
    /\ pr.pc = "debug_loop"
    /\ pr.k <= NJobs
    /\ pr' = [pr EXCEPT !.pc = "debug_call", !.workers[1].state = "Busy",
                        !.workers[1].job = pr.k, !.taken = @ \cup {pr.k}]
    /\ UNCHANGED <<mk, sl, gm, wc, fd, pm>>

\* Line 505: the call ends.  An exception that leaves it, or that
\* _check_worker_result raises, leaves predict: nothing between line 502 and
\* line 506 catches it, and the worker instance stays in
\* _predict_worker_inst.
DebugCallEnds ==
    /\ pr.pc = "debug_call"
    /\ LET o == predict_worker_call(workerarg(pr.k, pr.kinds[pr.k]), FALSE)
           f == check_worker_result(pr.k, o)
       IN  IF o.kind = "raise"
           THEN pr' = [pr EXCEPT !.pc = "raised", !.results[pr.k] = o,
                                 !.workers[1].state = "Ready", !.workers[1].job = 0,
                                 !.failure = Failure("worker_exception", pr.k, o.exc)]
           ELSE IF f # NoFailure
           THEN pr' = [pr EXCEPT !.pc = "raised", !.results[pr.k] = o,
                                 !.workers[1].state = "Ready", !.workers[1].job = 0,
                                 !.failure = f]
           ELSE pr' = [pr EXCEPT !.pc = "debug_loop", !.results[pr.k] = o,
                                 !.workers[1].state = "Ready", !.workers[1].job = 0,
                                 !.k = @ + 1,
                                 !.predictions = @ \cup o.predictions.keys]
    /\ UNCHANGED <<mk, sl, gm, wc, fd, pm>>

\* Lines 506 and 508: _predict_worker_delete(), then predict returns.
DebugDelete ==
    /\ pr.pc = "debug_loop"
    /\ pr.k > NJobs
    /\ pr' = [pr EXCEPT !.pc = "returned", !.returned = TRUE,
                        !.workers[1] = Worker("Destroyed", @.inits, @.dels + 1, 0)]
    /\ UNCHANGED <<mk, sl, gm, wc, fd, pm>>

PrNext ==
    \/ CreatePool
    \/ \E w \in 1..pr.nworker : WorkerInit(w)
    \/ \E w \in 1..pr.nworker : WorkerTake(w)
    \/ \E w \in 1..pr.nworker : WorkerFinish(w)
    \/ \E w \in 1..pr.nworker : WorkerExit(w)
    \/ MapReturns
    \/ MapRaises
    \/ MergeResult
    \/ PoolTerminate
    \/ PoolJoinAbort
    \/ PoolClose
    \/ PoolJoin
    \/ DebugInit
    \/ DebugCall
    \/ DebugCallEnds
    \/ DebugDelete

SpecPredict == PrInit /\ [][PrNext]_vars

PredictEnded == pr.pc \in {"returned", "raised"}

\* C1: if at least one job's result is a failure record, predict returns no
\* result mapping; it ends by raising a single failure that carries the
\* failing worker's message and trace, after all pool workers have been
\* terminated.
FailureRecordAborts ==
    (PredictEnded /\ \E k \in 1..NJobs : pr.results[k].kind = "failure_record") =>
        /\ ~pr.returned
        /\ pr.pc = "raised"
        /\ pr.failure.type = "SystemExit"
        /\ pr.results[pr.failure.job].kind = "failure_record"
        /\ pr.failure.carries = pr.results[pr.failure.job].exc
        /\ pr.pool = <<"create", "terminate", "join">>
        /\ \A w \in 1..pr.nworker : pr.workers[w].state = "Destroyed"

\* C1 for the runs in which no worker call lets an exception escape: the
\* part of the claim the code keeps.
FailureRecordAbortsUnlessEscape ==
    (PredictEnded /\ pr.first_raised = 0
        /\ \E k \in 1..NJobs : pr.results[k].kind = "failure_record") =>
        /\ ~pr.returned
        /\ pr.pc = "raised"
        /\ pr.failure.type = "SystemExit"
        /\ pr.results[pr.failure.job].kind = "failure_record"
        /\ pr.failure.carries = pr.results[pr.failure.job].exc
        /\ pr.pool = <<"create", "terminate", "join">>
        /\ \A w \in 1..pr.nworker : pr.workers[w].state = "Destroyed"

\* C3: with multiprocessing enabled, after the pool is created: if all jobs
\* complete and merge the pool is closed and then joined and never
\* terminated; if anything aborts (a failure record, an exception while
\* mapping or merging) the pool is terminated and then joined before the
\* failure leaves predict; join happens once, after close or terminate, and
\* no worker is left running when predict returns or raises.
PoolClosedOrTerminatedThenJoined ==
    pr.allow_multiprocessing =>
        /\ pr.pool \in {<<>>, <<"create">>,
                        <<"create", "close">>, <<"create", "close", "join">>,
                        <<"create", "terminate">>, <<"create", "terminate", "join">>}
        /\ pr.pc = "returned" =>
              /\ pr.pool = <<"create", "close", "join">>
              /\ \A k \in 1..NJobs : pr.results[k].kind = "dict"
              /\ pr.failure = NoFailure
        /\ pr.pc = "raised" =>
              /\ pr.pool = <<"create", "terminate", "join">>
              /\ \E k \in 1..NJobs : pr.results[k].kind \in {"failure_record", "raise"}
              /\ pr.failure # NoFailure
        /\ (Len(pr.pool) >= 2 /\ pr.pool[2] = "close") =>
              \A k \in 1..NJobs : pr.results[k].kind = "dict"
        /\ (Len(pr.pool) >= 2 /\ pr.pool[2] = "terminate") =>
              \A w \in 1..pr.nworker : pr.workers[w].state = "Destroyed"
        /\ PredictEnded => \A w \in 1..pr.nworker : pr.workers[w].state = "Destroyed"
        /\ (pr.pc \notin {"start", "returned", "raised"}) =>
              (pr.pool = <<>> \/ pr.pool[Len(pr.pool)] # "join")

\* An aborted run of three jobs: the first two were merged, the third is a
\* failure record, and the pool was terminated and joined with both workers
\* gone.
PoolAbortSeen ==
    /\ pr.allow_multiprocessing /\ pr.pc = "raised" /\ pr.nworker = 2
    /\ pr.failure.type = "SystemExit" /\ pr.failure.job = 3
    /\ pr.predictions = {<<1, "">>, <<2, "">>}
    /\ pr.pool = <<"create", "terminate", "join">>

\* A clean multiprocess run: three jobs merged, the pool closed and joined.
PoolCloseSeen ==
    /\ pr.allow_multiprocessing /\ pr.pc = "returned" /\ pr.nworker = 2
    /\ pr.predictions = {<<1, "">>, <<2, "">>, <<3, "">>}
    /\ pr.pool = <<"create", "close", "join">>

\* C4: every worker, in multiprocess and in debug mode, is initialized once
\* before it runs any job, runs at most one job at a time, and is torn down
\* once after its last job, on every way predict can end: it follows
\* Uninitialized -> Ready -> Busy -> Ready -> ... -> Destroyed, and none is
\* Ready or Busy after predict has returned or raised.
WorkerLifecycle ==
    \A w \in 1..pr.nworker :
        LET wk == pr.workers[w]
        IN  /\ wk.inits <= 1 /\ wk.dels <= 1
            /\ wk.state = "Uninitialized" => (wk.inits = 0 /\ wk.dels = 0)
            /\ wk.state \in {"Ready", "Busy"} => (wk.inits = 1 /\ wk.dels = 0)
            /\ wk.state = "Destroyed" => wk.dels = 1
            /\ (wk.state = "Busy") <=> (wk.job # 0)
            /\ \A v \in 1..pr.nworker : (v # w /\ wk.job # 0) => pr.workers[v].job # wk.job
            /\ PredictEnded => wk.state \notin {"Ready", "Busy"}
            /\ (PredictEnded /\ wk.inits = 1) => wk.state = "Destroyed"

\* C4 for multiprocess mode, and for debug mode up to the end of predict:
\* the part of the claim the code keeps.
WorkerLifecycleUnlessDebugRaise ==
    \A w \in 1..pr.nworker :
        LET wk == pr.workers[w]
        IN  /\ wk.inits <= 1 /\ wk.dels <= 1
            /\ wk.state \in {"Ready", "Busy"} => (wk.inits = 1 /\ wk.dels = 0)
            /\ (wk.state = "Busy") <=> (wk.job # 0)
            /\ (PredictEnded /\ (pr.allow_multiprocessing \/ pr.pc = "returned")) =>
                  wk.state = "Destroyed"

(***************************************************************************)
(* The finite-difference pass of gen_convnet_predictions (predict.py       *)
(* 208-250) over one batch.                                                *)
(***************************************************************************)
MaxFdSeqs == 2
MaxFdLen == 2
MaxPad == 1

\* The ordinal of the unknown symbol, which fills the padding of X.
OrdN == 4

\* Line 211: rcindex = [3,2,1,0], indexed from 0.
rcindex(j) == 3 - j

\* The s-th modelled forward sequence of length len, as ordinals.
FwdSeq(s, len) == [q \in 1..len |-> (s + q) % NBase]

\* util.revcomp on ordinals: reversed and complemented.
RevComp(seq) == [q \in 1..Len(seq) |-> rcindex(seq[Len(seq) + 1 - q])]

\* The rows of a batch of logical sequences of the lengths lens: one row per
\* sequence, or with double-strand scoring each sequence followed by its
\* reverse complement.
BatchRows(lens, seed, is_rc) ==
    IF is_rc
    THEN [r \in 1..(2 * Len(lens)) |->
            LET f == FwdSeq(seed + 2 * ((r + 1) \div 2), lens[(r + 1) \div 2])
            IN  IF r % 2 = 1 THEN f ELSE RevComp(f)]
    ELSE [r \in 1..Len(lens) |-> FwdSeq(seed + 2 * r, lens[r])]

\* The regions R of the packed byte array X: row k (0-based) occupies
\* [a, b) = pad bytes of padding followed by its sequence X[a+pad:b].
RECURSIVE RegionStart(_, _, _)
RegionStart(rows, pad, k) ==
    IF k = 0 THEN 0 ELSE RegionStart(rows, pad, k - 1) + pad + Len(rows[k])

Regions(rows, pad) ==
    [r \in 1..Len(rows) |->
        [a |-> RegionStart(rows, pad, r - 1), b |-> RegionStart(rows, pad, r)]]

\* X: the rows packed one after the other, each behind its padding, with a
\* final stretch of padding.
RECURSIVE PackRows(_, _, _)
PackRows(rows, pad, k) ==
    IF k = 0 THEN <<>>
    ELSE PackRows(rows, pad, k - 1) \o [q \in 1..pad |-> OrdN] \o rows[k]

PackX(rows, pad) == PackRows(rows, pad, Len(rows)) \o [q \in 1..pad |-> OrdN]

\* data._generate_dinuc_featurevec(seq): the count of every dinucleotide
\* (x, y) of known bases in seq, indexed by 4x + y + 1.
featurevec(seq) ==
    [d \in 1..(NBase * NBase) |->
        Cardinality({q \in 1..(Len(seq) - 1) :
                        /\ seq[q] < NBase /\ seq[q + 1] < NBase
                        /\ NBase * seq[q] + seq[q + 1] + 1 = d})]

\* The weights of the modelled scoring models, by model and base ordinal
\* (0-based), with the unknown symbol last.
ModelWeights == << <<1, 0 - 1, 0, 2, 0>>, <<0 - 2, 1, 0 - 1, 0, 0>> >>
NModels == Len(ModelWeights)

\* The score a model gives one sequence of ordinals: the sum of the weights
\* of its symbols.
RECURSIVE SeqScore(_, _)
SeqScore(m, seq) ==
    IF seq = <<>> THEN 0 ELSE ModelWeights[m][Head(seq) + 1] + SeqScore(m, Tail(seq))

\* model.eval(**args)['Z']: one score per row of the packed array X.
model_eval(m, X, R, pad) ==
    [r \in 1..Len(R) |-> SeqScore(m, Slice(X, R[r].a + pad, R[r].b))]

\* Lines 222-229: the loop over the rows, from row k + 1 (1-based) on.  st
\* holds mtX and mtF; i and j are the mutated position and base (0-based).
RECURSIVE mutate_rows(_, _, _, _, _, _, _)
mutate_rows(st, R, pad, is_rc, i, j, k) ==
    IF k > Len(R) THEN st
    ELSE LET a == R[k].a
             b == R[k].b
             mtX == IF i < b - a
                    THEN (IF ((k - 1) % 2 = 0) \/ ~is_rc
                          THEN [st.X EXCEPT ![pad + a + i + 1] = j]
                          ELSE [st.X EXCEPT ![b - i - 1 + 1] = rcindex(j)])
                    ELSE st.X
             mtF == [st.F EXCEPT ![k] = featurevec(Slice(mtX, pad + a, b))]
         IN  mutate_rows([X |-> mtX, F |-> mtF], R, pad, is_rc, i, j, k + 1)

Sign(x) == IF x > 0 THEN 1 ELSE IF x < 0 THEN 0 - 1 ELSE 0

\* A delta clipped at zero, which is not what lines 236-237 compute.
delta_Z_clipped(Z, mtZ) == [n \in 1..Len(Z) |-> Max(0, mtZ[n] - Z[n])]

\* Lines 236-237: dZ = mtZ-Z; dZ *= np.maximum(0,np.sign(np.maximum(Z,mtZ)))
delta_Z(Z, mtZ) ==
    [n \in 1..Len(Z) |-> (mtZ[n] - Z[n]) * Max(0, Sign(Max(Z[n], mtZ[n])))]

\* Lines 238-242: the deltas of the mutation (i, j) written into dX, for the
\* rows from k (1-based) on.
RECURSIVE record_dZ(_, _, _, _, _, _, _, _)
record_dZ(dX, dZ, R, pad, is_rc, i, j, k) ==
    IF k > Len(R) THEN dX
    ELSE LET a == R[k].a
             b == R[k].b
             hit == (((k - 1) % 2 = 0) \/ ~is_rc) /\ i < b - a
             val == dZ[IF is_rc THEN ((k - 1) \div 2) + 1 ELSE k]
         IN  record_dZ(IF hit THEN [dX EXCEPT ![pad + a + i + 1][j + 1] = val] ELSE dX,
                       dZ, R, pad, is_rc, i, j, k + 1)

FdInit ==
    /\ \E flag \in RevcompFlags, pad \in 0..MaxPad, n \in 1..MaxFdSeqs, seed \in 0..(NBase - 1),
          m \in 1..NModels :
         \E lens \in [1..n -> 1..MaxFdLen] :
           LET rows == BatchRows(lens, seed, flag # "absent")
               R == Regions(rows, pad)
               X == PackX(rows, pad)
               F == [r \in 1..Len(rows) |-> featurevec(rows[r])]
           IN  fd = [pc |-> "begin", flag |-> flag, pad |-> pad, model |-> m,
                     R |-> R, X |-> X, F0 |-> F,
                     args |-> [X |-> X, F |-> F],
                     Z |-> maskout_revcomp(model_eval(m, X, R, pad), flag).Z,
                     dX |-> ZeroRows(Len(X)),
                     oldF |-> <<>>, i |-> 0, j |-> 0]
    /\ mk = Off /\ sl = Off /\ gm = Off /\ wc = Off /\ pr = Off /\ pm = Off

\* Xlen.max() of lines 216-218.
XlenMax ==
    LET lens == {fd.R[r].b - fd.R[r].a : r \in 1..Len(fd.R)}
    IN  CHOOSE x \in lens : \A y \in lens : y <= x

\* Lines 209-217: the pass saves args['F'] and enters the loops.
FdBegin ==
    /\ fd.pc = "begin"
    /\ fd' = [fd EXCEPT !.pc = "mutate", !.oldF = fd.args.F, !.i = 0, !.j = 0]
    /\ UNCHANGED <<mk, sl, gm, wc, pr, pm>>

\* Lines 220-232: the mutated copies of X and F are built for (i, j) and put
\* into args.
FdMutate ==
    /\ fd.pc = "mutate"
    /\ fd.i < XlenMax
    /\ LET st == mutate_rows([X |-> fd.X, F |-> fd.args.F], fd.R, fd.pad,
                             fd.flag # "absent", fd.i, fd.j, 1)
       IN  fd' = [fd EXCEPT !.pc = "eval", !.args = [X |-> st.X, F |-> st.F]]
    /\ UNCHANGED <<mk, sl, gm, wc, pr, pm>>

\* Line 233: the evaluation of the mutated batch raises; the exception leaves
\* gen_convnet_predictions, since nothing in the function catches it.
FdEvalRaises ==
    /\ fd.pc = "eval"
    /\ fd' = [fd EXCEPT !.pc = "raised"]
    /\ UNCHANGED <<mk, sl, gm, wc, pr, pm>>

\* Lines 233-242: the mutated batch is evaluated, its delta recorded, and the
\* loops move on to the next (i, j).
FdEvalRecords ==
    /\ fd.pc = "eval"
    /\ LET mtZ == maskout_revcomp(model_eval(fd.model, fd.args.X, fd.R, fd.pad), fd.flag).Z
           dZ == delta_Z(fd.Z, mtZ)
       IN  fd' = [fd EXCEPT !.pc = "mutate",
                            !.dX = record_dZ(fd.dX, dZ, fd.R, fd.pad, fd.flag # "absent",
                                             fd.i, fd.j, 1),
                            !.i = IF fd.j = NBase - 1 THEN @ + 1 ELSE @,
                            !.j = IF fd.j = NBase - 1 THEN 0 ELSE @ + 1]
    /\ UNCHANGED <<mk, sl, gm, wc, pr, pm>>

\* Line 244, after the loops: args['F'] = oldF.
FdRestore ==
    /\ fd.pc = "mutate"
    /\ fd.i >= XlenMax
    /\ fd' = [fd EXCEPT !.pc = "done", !.args.F = fd.oldF]
    /\ UNCHANGED <<mk, sl, gm, wc, pr, pm>>

FdNext == FdBegin \/ FdMutate \/ FdEvalRaises \/ FdEvalRecords \/ FdRestore

SpecFD == FdInit /\ [][FdNext]_vars

\* The finite-difference pass over the batch has been left, by completion or
\* by an exception.
FdLeft == fd.pc \in {"done", "raised"}

\* C10: the feature buffer F of the batch's evaluation arguments holds its
\* original, pre-mutation value whenever the finite-difference pass over the
\* batch is left, on normal completion and when a mutated evaluation raises.
FRestoredOnEveryExit == FdLeft => fd.args.F = fd.F0

\* C10 on normal completion: the part of the claim the code keeps.
FRestoredOnCompletion == fd.pc = "done" => fd.args.F = fd.F0

\* The rows (1-based) of the batch that hold forward strands: every row, or
\* with double-strand scoring every other row.
ForwardRows == {k \in 1..Len(fd.R) : ((k - 1) % 2 = 0) \/ fd.flag = "absent"}

\* The forward sequence of row k as the batch was given.
ForwardSeq(k) == Slice(fd.X, fd.R[k].a + fd.pad, fd.R[k].b)

\* The index (1-based) of row k's sequence in the resolved scores Z.
ScoreIndex(k) == IF fd.flag = "absent" THEN k ELSE ((k - 1) \div 2) + 1

\* The substitution of base j at position i (0-based) of row k has been
\* evaluated and recorded.
Recorded(k, i, j) ==
    /\ fd.pc # "begin"
    /\ i < Len(ForwardSeq(k))
    /\ (i < fd.i \/ (i = fd.i /\ j < fd.j))

\* The resolved score of the sequence of row k with base j substituted at
\* position i: its own score; with double-strand scoring the larger of its
\* score and its reverse complement's; with the reverse strand forced, its
\* reverse complement's score.
MutatedScore(k, i, j) ==
    LET mt == [ForwardSeq(k) EXCEPT ![i + 1] = j]
        f == SeqScore(fd.model, mt)
        r == SeqScore(fd.model, RevComp(mt))
    IN  IF fd.flag = "absent" THEN f
        ELSE IF fd.flag = "force" THEN r
        ELSE Max(f, r)

\* The value recorded for the substitution (i, j) of row k.
RecordedValue(k, i, j) == fd.dX[fd.pad + fd.R[k].a + i + 1][j + 1]

\* C11 as stated: every attribution value recorded by the finite-difference
\* pass for a position i and a substitution j is a delta clipped to
\* non-negative, so it is never less than 0.
FdDeltaNeverNegative ==
    \A k \in ForwardRows : \A i \in 0..(MaxFdLen - 1), j \in 0..(NBase - 1) :
        Recorded(k, i, j) => RecordedValue(k, i, j) >= 0

\* C11 as the code has it: the value recorded for (i, j) is the delta
\* mtZ - Z itself, negative when the substitution lowers the score, if the
\* larger of the two scores is positive, and 0 if neither score is positive.
FdDeltaMaskedBySign ==
    \A k \in ForwardRows : \A i \in 0..(MaxFdLen - 1), j \in 0..(NBase - 1) :
        Recorded(k, i, j) =>
            LET Z == fd.Z[ScoreIndex(k)]
                mtZ == MutatedScore(k, i, j)
            IN  RecordedValue(k, i, j) = IF Max(Z, mtZ) > 0 THEN mtZ - Z ELSE 0

\* A pass has completed in which one substitution lowered a positive score
\* and was recorded as a negative value, and another changed a score with
\* neither score positive and was recorded as 0.
FdNegativeAndMaskedSeen ==
    /\ fd.pc = "done"
    /\ \E k \in ForwardRows : \E i \in 0..(MaxFdLen - 1), j \in 0..(NBase - 1) :
         /\ Recorded(k, i, j)
         /\ RecordedValue(k, i, j) < 0
    /\ \E k \in ForwardRows : \E i \in 0..(MaxFdLen - 1), j \in 0..(NBase - 1) :
         /\ Recorded(k, i, j)
         /\ MutatedScore(k, i, j) # fd.Z[ScoreIndex(k)]
         /\ Max(fd.Z[ScoreIndex(k)], MutatedScore(k, i, j)) <= 0
         /\ RecordedValue(k, i, j) = 0

(***************************************************************************)
(* The prediction maps of gen_convnet_predictionmaps (predict.py 289-325)  *)
(* with the batch loop of gen_convnet_predictions (172-195, 268).          *)
(***************************************************************************)
MaxMapSeqs == 3
MaxMapLen == 2
MaxMapWindow == 2
MaxMapStride == 2

\* Line 291 (max_chunksize = 32) and line 174 (batchsize=2048).
max_chunksize == 32
batchsize == 2048

\* Small sizes of a chunk and of a batch, under which the same loops meet
\* chunk and batch boundaries on short inputs.
SmallChunk == 2
SmallBatch == 2

\* The chunk and batch sizes the loops are run with: the program's own, and
\* the small ones.
LoopSizes ==
    {[chunk |-> max_chunksize, batch |-> batchsize],
     [chunk |-> SmallChunk, batch |-> SmallBatch]}

\* The letters of the ordinals 0..3.
OrdLetters == <<"A", "C", "G", "T">>

\* util.acgt2ord on one symbol; every symbol that is no base is unknown.
acgt2ord(c) ==
    IF c \in Bases THEN (CHOOSE o \in 0..(NBase - 1) : OrdLetters[o + 1] = c) ELSE OrdN

\* The reverse complement of a window, as ordinals; the unknown symbol is
\* its own complement.
window_revcomp(win) ==
    [q \in 1..Len(win) |->
        LET o == acgt2ord(win[Len(win) + 1 - q])
        IN  IF o = OrdN THEN OrdN ELSE rcindex(o)]

\* The rows that a batch of windows is evaluated as: one row per window, or
\* with double-strand scoring each window followed by its reverse complement.
batch_rows(batch, flag) ==
    IF flag = "absent"
    THEN [r \in 1..Len(batch) |-> [q \in 1..Len(batch[r]) |-> acgt2ord(batch[r][q])]]
    ELSE [r \in 1..(2 * Len(batch)) |->
            LET win == batch[(r + 1) \div 2]
            IN  IF r % 2 = 1 THEN [q \in 1..Len(win) |-> acgt2ord(win[q])]
                ELSE window_revcomp(win)]

\* Line 183-185: model.eval(**args)['Z'], one score per row.
eval_rows(m, rows) == [r \in 1..Len(rows) |-> SeqScore(m, rows[r])]

\* Line 174: data.asbatches(batchsize, reshuffle=False): the items in order,
\* in consecutive batches of at most size items.
asbatches(items, size) ==
    [b \in 1..((Len(items) + size - 1) \div size) |->
        Slice(items, (b - 1) * size, b * size)]

\* Line 292: nchunk = (len(data) + max_chunksize - 1) // max_chunksize
nchunk(ndata, size) == (ndata + size - 1) \div size

\* Line 295: data[ci*max_chunksize:(ci+1)*max_chunksize]
chunk_of(data, ci, size) == Slice(data, ci * size, (ci + 1) * size)

\* The lists lo..hi of a list of lists joined in order, by halves.
RECURSIVE FlattenRange(_, _, _)
FlattenRange(lists, lo, hi) ==
    IF lo > hi THEN <<>>
    ELSE IF lo = hi THEN lists[lo]
    ELSE LET mid == (lo + hi) \div 2
         IN  FlattenRange(lists, lo, mid) \o FlattenRange(lists, mid + 1, hi)

\* sum(lists, []) of line 304 and np.vstack of line 268: the lists joined
\* in order.
Flatten(lists) == FlattenRange(lists, 1, Len(lists))

\* Line 315: [attr[i] for i in range(chunksize) for j in range(nwindows[i])]
repeat_rows(attr, nwindows) ==
    Flatten([i \in 1..Len(attr) |-> [j \in 1..nwindows[i] |-> attr[i]]])

\* Line 320: chunk_regions = np.cumsum([0]+nwindows); entry i + 1 is the
\* code's chunk_regions[i].
RECURSIVE PrefixSum(_, _)
PrefixSum(ns, k) == IF k = 0 THEN 0 ELSE PrefixSum(ns, k - 1) + ns[k]

chunk_regions(nwindows) == [i \in 1..(Len(nwindows) + 1) |-> PrefixSum(nwindows, i - 1)]

\* Line 324 with the end of the slice one row early.
pmap_of_short(chunk_predictions, regions, i) ==
    Slice(chunk_predictions, regions[i + 1], regions[i + 2] - 1)

\* Line 324: chunk_predictions[chunk_regions[i]:chunk_regions[i+1]].ravel()
\* for the 0-based sequence index i of the chunk.
pmap_of(chunk_predictions, regions, i) ==
    Slice(chunk_predictions, regions[i + 1], regions[i + 2])

\* The s-th modelled raw sequence of length len.
RawSeq(s, len) == [q \in 1..len |-> OrdLetters[((s + q) % NBase) + 1]]

\* The modelled data sets: up to MaxMapSeqs raw sequences of every
\* combination of lengths up to MaxMapLen.
DataSets ==
    UNION {{[r \in 1..n |-> RawSeq(2 * r, lens[r])] : lens \in [1..n -> 0..MaxMapLen]} :
              n \in 0..MaxMapSeqs}

\* Two data sets that meet the boundaries of the program's own sizes: one
\* sequence more than a chunk holds, and one sequence with more windows than
\* a batch holds.
LargeDataSets ==
    {[r \in 1..(max_chunksize + 1) |-> RawSeq(r, r % (MaxMapLen + 1))],
     <<RawSeq(0, batchsize + 1)>>}

PmInit ==
    /\ \E data \in DataSets \cup LargeDataSets, sizes \in LoopSizes, w \in 1..MaxMapWindow,
          st \in 1..MaxMapStride, flag \in RevcompFlags :
         pm = [pc |-> "chunk", data |-> data, sizes |-> sizes, windowsize |-> w,
               stride |-> st, flag |-> flag, model |-> 1,
               ci |-> 0, rawseqs |-> <<>>, nwindows |-> <<>>, sequences |-> <<>>,
               rowidx |-> <<>>, batches |-> <<>>, predictions |-> <<>>,
               chunk_predictions |-> <<>>, chunk_regions |-> <<>>, i |-> 0,
               predictionmaps |-> <<>>]
    /\ mk = Off /\ sl = Off /\ gm = Off /\ wc = Off /\ pr = Off /\ fd = Off

\* Lines 293-319 up to the call of gen_convnet_predictions, and its lines
\* 172-174: the next chunk is cut from the data, every raw sequence of it is
\* sliced into windows, the windows are joined into the chunk's rows, the
\* other attributes are repeated once per window, and the rows are batched.
SliceChunk ==
    /\ pm.pc = "chunk"
    /\ pm.ci < nchunk(Len(pm.data), pm.sizes.chunk)
    /\ LET rawseqs == chunk_of(pm.data, pm.ci, pm.sizes.chunk)
           rowidx == chunk_of([r \in 1..Len(pm.data) |-> r - 1], pm.ci, pm.sizes.chunk)
           chunk_X == [r \in 1..Len(rawseqs) |->
                          windows_of(rawseqs[r], pm.windowsize, pm.stride)]
           nwindows == [r \in 1..Len(chunk_X) |-> Len(chunk_X[r])]
           sequences == Flatten(chunk_X)
       IN  pm' = [pm EXCEPT !.pc = "batch", !.rawseqs = rawseqs, !.nwindows = nwindows,
                            !.sequences = sequences,
                            !.rowidx = repeat_rows(rowidx, nwindows),
                            !.batches = asbatches(sequences, pm.sizes.batch),
                            !.predictions = <<>>]
    /\ UNCHANGED <<mk, sl, gm, wc, pr, fd>>

\* Lines 175-195: one batch is evaluated, its scores resolved by strand and
\* appended to predictions.
EvalBatch ==
    /\ pm.pc = "batch"
    /\ Len(pm.predictions) < Len(pm.batches)
    /\ LET batch == pm.batches[Len(pm.predictions) + 1]
           Z == eval_rows(pm.model, batch_rows(batch, pm.flag))
       IN  pm' = [pm EXCEPT !.predictions = Append(@, maskout_revcomp(Z, pm.flag).Z)]
    /\ UNCHANGED <<mk, sl, gm, wc, pr, fd>>

\* Lines 268-270 and 319-320: after the last batch the predictions are
\* stacked and returned, and the window-count boundaries are computed.
StackPredictions ==
    /\ pm.pc = "batch"
    /\ Len(pm.predictions) = Len(pm.batches)
    /\ pm' = [pm EXCEPT !.pc = "split", !.i = 0,
                        !.chunk_predictions = Flatten(pm.predictions),
                        !.chunk_regions = chunk_regions(pm.nwindows)]
    /\ UNCHANGED <<mk, sl, gm, wc, pr, fd>>

\* Lines 321-325: the prediction map of the next sequence of the chunk is
\* cut from the chunk's predictions and appended.
AppendPmap ==
    /\ pm.pc = "split"
    /\ pm.i < Len(pm.rawseqs)
    /\ pm' = [pm EXCEPT !.i = @ + 1,
                        !.predictionmaps =
                            Append(@, pmap_of(pm.chunk_predictions, pm.chunk_regions, pm.i))]
    /\ UNCHANGED <<mk, sl, gm, wc, pr, fd>>

\* Line 293: the loop moves on to the next chunk.
NextChunk ==
    /\ pm.pc = "split"
    /\ pm.i = Len(pm.rawseqs)
    /\ pm' = [pm EXCEPT !.pc = "chunk", !.ci = @ + 1]
    /\ UNCHANGED <<mk, sl, gm, wc, pr, fd>>

\* Line 345: after the last chunk the maps are returned.
MapsReturn ==
    /\ pm.pc = "chunk"
    /\ pm.ci = nchunk(Len(pm.data), pm.sizes.chunk)
    /\ pm' = [pm EXCEPT !.pc = "done"]
    /\ UNCHANGED <<mk, sl, gm, wc, pr, fd>>

PmNext ==
    SliceChunk \/ EvalBatch \/ StackPredictions \/ AppendPmap \/ NextChunk \/ MapsReturn

SpecMaps == PmInit /\ [][PmNext]_vars

\* The resolved score of one window: its own score; with double-strand
\* scoring the larger of its score and its reverse complement's; with the
\* reverse strand forced, its reverse complement's score.
ResolvedScore(win) ==
    LET f == SeqScore(pm.model, [q \in 1..Len(win) |-> acgt2ord(win[q])])
        r == SeqScore(pm.model, window_revcomp(win))
    IN  IF pm.flag = "absent" THEN f
        ELSE IF pm.flag = "force" THEN r
        ELSE Max(f, r)

\* C13: gen_convnet_predictionmaps returns one prediction map per input
\* sequence, in input order; map i has as many entries as windows were
\* generated for sequence i, and its k-th entry is the resolved score of the
\* k-th window of sequence i, whatever chunks and batches the windows fell
\* into.  During the run the maps built so far are those of the first
\* sequences of the data.
PredictionMapsPerSequence ==
    pm.pc # "off" =>
        /\ pm.pc = "done" => Len(pm.predictionmaps) = Len(pm.data)
        /\ Len(pm.predictionmaps) <= Len(pm.data)
        /\ \A n \in 1..Len(pm.predictionmaps) :
              LET wins == windows_of(pm.data[n], pm.windowsize, pm.stride)
                  pmap == pm.predictionmaps[n]
              IN  /\ Len(pmap) = Len(wins)
                  /\ \A k \in 1..Len(wins) : pmap[k] = ResolvedScore(wins[k])

\* A finished run over more sequences than one chunk holds, whose last chunk
\* held one sequence with more windows than a batch holds, so that a batch
\* boundary fell inside its windows; the first and the last map differ.
MapsAcrossChunksAndBatchesSeen ==
    /\ pm.pc = "done"
    /\ Len(pm.data) > pm.sizes.chunk
    /\ Len(pm.batches) > 1
    /\ Len(pm.nwindows) = 1 /\ pm.nwindows[1] > pm.sizes.batch
    /\ pm.predictionmaps[1] # pm.predictionmaps[Len(pm.data)]

\* A finished run with the program's own sizes over one sequence more than a
\* chunk of 32 holds.
MapsAcrossFullChunkSeen ==
    /\ pm.pc = "done"
    /\ pm.sizes.chunk = max_chunksize
    /\ Len(pm.data) = max_chunksize + 1
    /\ pm.ci = 2

\* A finished run with the program's own sizes over a sequence with one
\* window more than a batch of 2048 holds.
MapsAcrossFullBatchSeen ==
    /\ pm.pc = "done"
    /\ pm.sizes.batch = batchsize
    /\ Len(pm.batches) = 2
    /\ Len(pm.predictionmaps[1]) > batchsize

====
